---- MODULE Spec2Model ----
(***************************************************************************)
(* Model of the filtering-and-aggregation pipeline of app.py (DataViz).    *)
(*                                                                         *)
(* The process state is the module-level data of app.py: the base table    *)
(* amazon_sales_data, its load-time subview non_cancelled_orders, and the  *)
(* two globals update_dashboard writes.  One action, update_dashboard, is  *)
(* the Dash callback; its result is recorded in `bundle'.                  *)
(*                                                                         *)
(* Data representation                                                     *)
(*   - a DataFrame is a sequence of rows (records), in row order;          *)
(*   - Order_Date is a datetime64 timestamp: an integer number of ticks,   *)
(*     TicksPerDay ticks per calendar day; pd.to_datetime of a date-picker *)
(*     value is midnight of that day; .dt.date drops the time of day;      *)
(*   - Product_Category and Shipping_State are integer codes, so that the  *)
(*     ascending key order of groupby is the integer order;                *)
(*   - Sale_Amount is a natural number or NaN; Promotion_IDs is a string   *)
(*     or null;                                                            *)
(*   - a float that is a quotient is the reduced fraction <<n, d>>.        *)
(* The plotting calls of plotly are not modelled: each figure is           *)
(* represented by the data frame it is drawn from.                         *)
(***************************************************************************)
EXTENDS Integers, Sequences, FiniteSets, TLC

VARIABLES
    amazon_sales_data,              \* rows of the base table (app.py:36)
    amazon_sales_data_columns,      \* column names of the base table
    non_cancelled_orders,           \* load-time non-cancelled subview (app.py:26)
    amazon_sales_data_filtered,     \* global written by update_dashboard (app.py:466)
    non_cancelled_orders_filtered,  \* global written by update_dashboard (app.py:467)
    sort_ties,                      \* how this build's quicksort orders equal keys
    start_date, end_date, selected_category,   \* inputs of the last call
    returned,                       \* TRUE once a call has returned
    bundle,                         \* what the last call returned
    fig_heatmap,                    \* the pivot the last call built (app.py:845)
    pc,                             \* where each running call of update_dashboard is
    locals                          \* the local variables of each running call

vars == <<amazon_sales_data, amazon_sales_data_columns, non_cancelled_orders,
          amazon_sales_data_filtered, non_cancelled_orders_filtered, sort_ties,
          start_date, end_date, selected_category, returned, bundle, fig_heatmap,
          pc, locals>>

----------------------------------------------------------------------------
(* Bounds of the model *)

TicksPerDay == 2
MaxDay == 9
NumRankCategories == 11
NumPivotStates == 16
NumCalls == 2

(* Program constants *)

window == 7
top_n == 10
N == 15

(* Values *)

NaN == -1
NoDate == -1
NoCategory == -1
AllCategories == 0
UnknownCategory == 99
null == "null"
Cancelled == "Cancelled"
Shipped == "Shipped"
NoLabel == -1
ZeroDivisionError == <<1, 0>>
NoCancellationData == "No cancellation data available"
CancelByCategoryTitle == "Cancelled vs Not Cancelled Orders by Category (Volume)"

----------------------------------------------------------------------------
(* Arithmetic *)

Max(a, b) == IF a >= b THEN a ELSE b
Min(a, b) == IF a <= b THEN a ELSE b

RECURSIVE GCD(_, _)
GCD(a, b) == IF b = 0 THEN a ELSE GCD(b, a % b)

\* n / d as a reduced fraction (n >= 0, d > 0)
Rat(n, d) == LET g == GCD(n, d) IN <<n \div g, d \div g>>

\* Python's n / d on numbers: raises ZeroDivisionError when d = 0
Div(n, d) == IF d = 0 THEN ZeroDivisionError ELSE Rat(n, d)

\* (c / t * 100).round(2), in hundredths of a percent; numpy rounds half to even
Round2Pct(c, t) ==
    LET q == (c * 10000) \div t
        r == (c * 10000) % t
    IN  IF 2 * r < t THEN q
        ELSE IF 2 * r > t THEN q + 1
        ELSE IF q % 2 = 0 THEN q ELSE q + 1

----------------------------------------------------------------------------
(* pandas primitives *)

to_datetime(d) == d * TicksPerDay
dt_date(ts) == ts \div TicksPerDay

isna(x) == x = NaN
notna(p) == p # null

\* Series.sum(): NaN entries are skipped; the sum of nothing is 0
RECURSIVE sum(_)
sum(s) == IF s = <<>> THEN 0
          ELSE (IF isna(Head(s)) THEN 0 ELSE Head(s)) + sum(Tail(s))

Column(df, col(_)) == [i \in 1..Len(df) |-> col(df[i])]

RECURSIVE SortedKeys(_)
SortedKeys(S) == IF S = {} THEN <<>>
                 ELSE LET m == CHOOSE x \in S : \A y \in S : x <= y
                      IN <<m>> \o SortedKeys(S \ {m})

\* the group keys of df.groupby(key), in ascending order (sort=True)
GroupKeys(df, key(_)) == SortedKeys({key(df[i]) : i \in 1..Len(df)})

head(df, n) == SubSeq(df, 1, Min(n, Len(df)))

\* df.sort_values(col, ascending=False), kind='quicksort': rows in
\* non-increasing order of col; the order of rows with equal col is not
\* specified by numpy and is fixed per build by sort_ties
RECURSIVE SortDescFrom(_, _, _, _)
SortDescFrom(df, keys, rest, ties) ==
    IF rest = {} THEN <<>>
    ELSE LET pick == IF ties = "first"
                     THEN CHOOSE i \in rest : \A j \in rest :
                              keys[i] > keys[j] \/ (keys[i] = keys[j] /\ i <= j)
                     ELSE CHOOSE i \in rest : \A j \in rest :
                              keys[i] > keys[j] \/ (keys[i] = keys[j] /\ i >= j)
         IN <<df[pick]>> \o SortDescFrom(df, keys, rest \ {pick}, ties)

sort_values_desc(df, col(_), ties) ==
    SortDescFrom(df, Column(df, col), 1..Len(df), ties)

----------------------------------------------------------------------------
(* update_dashboard, step by step *)

Sale_Amount(r) == r.Sale_Amount
Product_Category(r) == r.Product_Category
Shipping_State(r) == r.Shipping_State
Total_Orders(r) == r.Total_Orders

\* Order_Day without .dt.date: the group key keeps the time of day
Order_Timestamp(r) == r.Order_Date

\* app.py:529  filtered_data['Order_Date'].dt.date
Order_Day(r) == dt_date(r.Order_Date)

\* app.py:450-455
DateFilter(df, s, e) ==
    IF s # NoDate /\ e # NoDate
    THEN SelectSeq(df, LAMBDA r : r.Order_Date >= to_datetime(s)
                                  /\ r.Order_Date <= to_datetime(e))
    ELSE df

\* app.py:458-459
CategoryFilter(df, c) ==
    IF c # NoCategory /\ c # AllCategories
    THEN SelectSeq(df, LAMBDA r : r.Product_Category = c)
    ELSE df

filtered_data_of(base, s, e, c) == CategoryFilter(DateFilter(base, s, e), c)

\* NotCancelled comparing against a misspelt status
NotCanceled(df) == SelectSeq(df, LAMBDA r : r.Order_Status # "Canceled")

\* app.py:462
NotCancelled(df) == SelectSeq(df, LAMBDA r : r.Order_Status # Cancelled)
OnlyCancelled(df) == SelectSeq(df, LAMBDA r : r.Order_Status = Cancelled)

\* kpis without the guard on the divisor of avg_order_value
kpis_unguarded(filtered_data, filtered_non_cancelled) ==
    LET total_orders == Len(filtered_data)
        total_revenue == sum(Column(filtered_non_cancelled, Sale_Amount))
        cancelled_orders == Len(OnlyCancelled(filtered_data))
    IN  [total_orders |-> total_orders,
         total_revenue |-> total_revenue,
         cancellation_rate |->
             IF total_orders > 0 THEN Div(cancelled_orders * 100, total_orders)
             ELSE <<0, 1>>,
         avg_order_value |-> Div(total_revenue, Len(filtered_non_cancelled))]

\* app.py:473-477
kpis(filtered_data, filtered_non_cancelled) ==
    LET total_orders == Len(filtered_data)
        total_revenue == sum(Column(filtered_non_cancelled, Sale_Amount))
        cancelled_orders == Len(OnlyCancelled(filtered_data))
    IN  [total_orders |-> total_orders,
         total_revenue |-> total_revenue,
         cancellation_rate |->
             IF total_orders > 0 THEN Div(cancelled_orders * 100, total_orders)
             ELSE <<0, 1>>,
         avg_order_value |->
             IF Len(filtered_non_cancelled) > 0
             THEN Div(total_revenue, Len(filtered_non_cancelled))
             ELSE <<0, 1>>]

\* app.py:529-532
daily_groups(filtered_data) ==
    LET days == GroupKeys(filtered_data, Order_Day)
    IN  [i \in 1..Len(days) |->
            LET g == SelectSeq(filtered_data, LAMBDA r : Order_Day(r) = days[i])
            IN [Order_Date |-> days[i],
                Order_ID |-> Len(g),
                Sale_Amount |-> sum(Column(g, Sale_Amount))]]

\* rolling_mean with a window one entry too long
rolling_mean_wide(s, i) ==
    LET lo == Max(1, i - window)
    IN  Div(sum(SubSeq(s, lo, i)), i - lo + 1)

\* app.py:534  rolling(window=7, min_periods=1).mean()
rolling_mean(s, i) ==
    LET lo == Max(1, i - window + 1)
    IN  Div(sum(SubSeq(s, lo, i)), i - lo + 1)

daily_sales_of(filtered_data) ==
    LET d == daily_groups(filtered_data)
        amounts == Column(d, Sale_Amount)
    IN  [i \in 1..Len(d) |->
            [Order_Date |-> d[i].Order_Date,
             Order_ID |-> d[i].Order_ID,
             Sale_Amount |-> d[i].Sale_Amount,
             Rolling_Avg |-> rolling_mean(amounts, i)]]

\* app.py:578-583
category_sales_of(filtered_non_cancelled, ties) ==
    LET cats == GroupKeys(filtered_non_cancelled, Product_Category)
        grouped == [i \in 1..Len(cats) |->
            LET g == SelectSeq(filtered_non_cancelled,
                               LAMBDA r : r.Product_Category = cats[i])
            IN [Product_Category |-> cats[i],
                Sale_Amount |-> sum(Column(g, Sale_Amount)),
                Order_ID |-> Len(g)]]
    IN  head(sort_values_desc(grouped, Sale_Amount, ties), top_n)

\* app.py:612-618
state_sales_of(filtered_non_cancelled, ties) ==
    LET states == GroupKeys(filtered_non_cancelled, Shipping_State)
        grouped == [i \in 1..Len(states) |->
            LET g == SelectSeq(filtered_non_cancelled,
                               LAMBDA r : r.Shipping_State = states[i])
            IN [Shipping_State |-> states[i],
                Sale_Amount |-> sum(Column(g, Sale_Amount)),
                Order_ID |-> Len(g)]]
    IN  head(sort_values_desc(grouped, Sale_Amount, ties), top_n)

\* app.py:690-707  groupby(['Product_Category', 'Order_Status']).size()
\* .unstack(fill_value=0), then the Total_Orders, Not_Cancelled and
\* Cancelled_% columns; one row per category of filtered_data
cancel_by_category_of(filtered_data) ==
    LET cats == GroupKeys(filtered_data, Product_Category)
    IN  [i \in 1..Len(cats) |->
            LET g == SelectSeq(filtered_data,
                               LAMBDA r : r.Product_Category = cats[i])
                cancelled == Len(OnlyCancelled(g))
            IN [Product_Category |-> cats[i],
                Cancelled |-> cancelled,
                Not_Cancelled |-> Len(g) - cancelled,
                Total_Orders |-> Len(g),
                Cancelled_pct |-> Round2Pct(cancelled, Len(g))]]

\* HasCancelledColumn testing for any row instead of a Cancelled one
HasAnyRow(filtered_data) == Len(filtered_data) > 0

\* app.py:694  'Cancelled' in cancel_by_category.columns
HasCancelledColumn(filtered_data) ==
    \E i \in 1..Len(filtered_data) : filtered_data[i].Order_Status = Cancelled

\* app.py:714-736  melt of the counts and of the labels, merged, then
\* sorted by Total_Orders, descending
merged_of(filtered_data) ==
    LET plot_data == cancel_by_category_of(filtered_data)
        n == Len(plot_data)
    IN  [k \in 1..(2 * n) |->
            IF k <= n
            THEN [Product_Category |-> plot_data[k].Product_Category,
                  Total_Orders |-> plot_data[k].Total_Orders,
                  Status |-> "Cancelled",
                  Count |-> plot_data[k].Cancelled,
                  Label |-> plot_data[k].Cancelled_pct]
            ELSE [Product_Category |-> plot_data[k - n].Product_Category,
                  Total_Orders |-> plot_data[k - n].Total_Orders,
                  Status |-> "Not_Cancelled",
                  Count |-> plot_data[k - n].Not_Cancelled,
                  Label |-> NoLabel]]

\* final_data_of with a truncation to top_n that app.py:736 does not have
final_data_top_n(filtered_data, ties) ==
    head(sort_values_desc(merged_of(filtered_data), Total_Orders, ties), top_n)

final_data_of(filtered_data, ties) ==
    sort_values_desc(merged_of(filtered_data), Total_Orders, ties)

\* app.py:690-768
cancel_chart_of(filtered_data, ties) ==
    IF HasCancelledColumn(filtered_data)
    THEN [title |-> CancelByCategoryTitle,
          data |-> final_data_of(filtered_data, ties)]
    ELSE [title |-> NoCancellationData, data |-> <<>>]

Cancellation_Count(r) == r.Cancellation_Count

\* app.py:773-791  (reads the base table, not the filtered view)
top_cancellations_of(base, ties) ==
    LET cancelled_orders_df == OnlyCancelled(base)
        states == GroupKeys(cancelled_orders_df, Shipping_State)
        total_cancellations == Len(cancelled_orders_df)
        by_state == [i \in 1..Len(states) |->
            LET c == Len(SelectSeq(cancelled_orders_df,
                                   LAMBDA r : r.Shipping_State = states[i]))
            IN [Shipping_State |-> states[i],
                Cancellation_Count |-> c,
                Cancellation_Percent |-> Round2Pct(c, total_cancellations)]]
    IN  head(sort_values_desc(by_state, Cancellation_Count, ties), top_n)

RECURSIVE SortedPairs(_)
SortedPairs(S) ==
    IF S = {} THEN <<>>
    ELSE LET m == CHOOSE p \in S : \A q \in S :
                      p[1] < q[1] \/ (p[1] = q[1] /\ p[2] <= q[2])
         IN <<m>> \o SortedPairs(S \ {m})

\* app.py:828  groupby(['Shipping_State', 'Product_Category']).size()
state_category_orders_of(orders) ==
    LET keys == SortedPairs({<<orders[i].Shipping_State, orders[i].Product_Category>> :
                                 i \in 1..Len(orders)})
    IN  [k \in 1..Len(keys) |->
            [Shipping_State |-> keys[k][1],
             Product_Category |-> keys[k][2],
             Order_Count |-> Len(SelectSeq(orders, LAMBDA r :
                                 r.Shipping_State = keys[k][1]
                                 /\ r.Product_Category = keys[k][2]))]]

Total_State_Orders(r) == r.Total_State_Orders

\* app.py:832-834
top_states_of(orders, ties) ==
    LET states == GroupKeys(orders, Shipping_State)
        total_orders_per_state == [i \in 1..Len(states) |->
            [Shipping_State |-> states[i],
             Total_State_Orders |-> Len(SelectSeq(orders, LAMBDA r :
                                        r.Shipping_State = states[i]))]]
    IN  sort_values_desc(total_orders_per_state, Total_State_Orders, ties)

\* top_n_states_list_of without the head(N) of app.py:837
top_n_states_list_all(orders, ties) ==
    Column(top_states_of(orders, ties), Shipping_State)

\* app.py:836-837
top_n_states_list_of(orders, ties) ==
    Column(head(top_states_of(orders, ties), N), Shipping_State)

Range(s) == {s[i] : i \in 1..Len(s)}

\* app.py:839
isin(df, col(_), values) == SelectSeq(df, LAMBDA r : col(r) \in values)

state_category_orders_filtered_of(orders, ties) ==
    isin(state_category_orders_of(orders), Shipping_State,
         Range(top_n_states_list_of(orders, ties)))

\* the pivot without fillna(0): a pair that does not occur holds NaN
pivot_without_fillna(long, index, columns) ==
    [index |-> index, columns |-> columns,
     values |-> [i \in 1..Len(index) |-> [j \in 1..Len(columns) |->
         IF \E k \in 1..Len(long) : /\ long[k].Shipping_State = index[i]
                                    /\ long[k].Product_Category = columns[j]
         THEN long[CHOOSE k \in 1..Len(long) :
                       /\ long[k].Shipping_State = index[i]
                       /\ long[k].Product_Category = columns[j]].Order_Count
         ELSE NaN]]]

\* app.py:845-849  pivot(index='Shipping_State', columns='Product_Category',
\* values='Order_Count').fillna(0): index and columns come out sorted
pivot(long, index, columns) ==
    [index |-> index,
     columns |-> columns,
     values |-> [i \in 1..Len(index) |-> [j \in 1..Len(columns) |->
         IF \E k \in 1..Len(long) : /\ long[k].Shipping_State = index[i]
                                     /\ long[k].Product_Category = columns[j]
         THEN long[CHOOSE k \in 1..Len(long) :
                       /\ long[k].Shipping_State = index[i]
                       /\ long[k].Product_Category = columns[j]].Order_Count
         ELSE 0]]]

pivot_of(long) ==
    pivot(long, GroupKeys(long, Shipping_State), GroupKeys(long, Product_Category))

heatmap_data_of(orders, ties) ==
    pivot_of(state_category_orders_filtered_of(orders, ties))

\* sort_values(col), ascending, kind='quicksort', on precomputed keys
RECURSIVE SortAscFrom(_, _, _, _)
SortAscFrom(df, keys, rest, ties) ==
    IF rest = {} THEN <<>>
    ELSE LET pick == IF ties = "first"
                     THEN CHOOSE i \in rest : \A j \in rest :
                              keys[i] < keys[j] \/ (keys[i] = keys[j] /\ i <= j)
                     ELSE CHOOSE i \in rest : \A j \in rest :
                              keys[i] < keys[j] \/ (keys[i] = keys[j] /\ i >= j)
         IN <<df[pick]>> \o SortAscFrom(df, keys, rest \ {pick}, ties)

\* code of a value in pd.Categorical(categories=cats, ordered=True)
CategoricalCode(cats, v) == CHOOSE i \in 1..Len(cats) : cats[i] = v

sort_by_categorical(long, cats, ties) ==
    SortAscFrom(long,
                [k \in 1..Len(long) |-> CategoricalCode(cats, long[k].Shipping_State)],
                1..Len(long), ties)

\* app.py:875-880  rows of the stacked bar chart, in top-N state order
fig_stacked_bar_of(orders, ties) ==
    sort_by_categorical(state_category_orders_filtered_of(orders, ties),
                        top_n_states_list_of(orders, ties), ties)

\* Series.mean(): NaN entries are skipped; the mean of nothing is NaN
mean(s) ==
    LET present == SelectSeq(s, LAMBDA x : ~isna(x))
    IN  IF present = <<>> THEN <<NaN, 1>> ELSE Rat(sum(present), Len(present))

\* Order_Count taken over the Sale_Amount column, which leaves NaN amounts out
promo_impact_count_amount(filtered_non_cancelled) ==
    LET keys == SortedKeys({IF notna(filtered_non_cancelled[i].Promotion_IDs) THEN 1 ELSE 0 :
                                i \in 1..Len(filtered_non_cancelled)})
    IN  [k \in 1..Len(keys) |->
            LET g == SelectSeq(filtered_non_cancelled, LAMBDA r :
                         (IF notna(r.Promotion_IDs) THEN 1 ELSE 0) = keys[k])
            IN [Promotion |-> IF keys[k] = 1 THEN "With Promotion" ELSE "No Promotion",
                Total_Sales |-> sum(Column(g, Sale_Amount)),
                Average_Order_Value |-> mean(Column(g, Sale_Amount)),
                Order_Count |-> Len(SelectSeq(g, LAMBDA r : ~isna(r.Sale_Amount)))]]

\* app.py:902-911  one row per value of has_promo that occurs, False first
promo_impact_of(filtered_non_cancelled) ==
    LET keys == SortedKeys({IF notna(filtered_non_cancelled[i].Promotion_IDs) THEN 1 ELSE 0 :
                                i \in 1..Len(filtered_non_cancelled)})
    IN  [k \in 1..Len(keys) |->
            LET g == SelectSeq(filtered_non_cancelled, LAMBDA r :
                         (IF notna(r.Promotion_IDs) THEN 1 ELSE 0) = keys[k])
            IN [Promotion |-> IF keys[k] = 1 THEN "With Promotion" ELSE "No Promotion",
                Total_Sales |-> sum(Column(g, Sale_Amount)),
                Average_Order_Value |-> mean(Column(g, Sale_Amount)),
                Order_Count |-> Len(g)]]

\* app.py:996  the figures update_dashboard returns, each as its data
\* (fulfillment_chart and order_fig carry no property stated below and are
\* left out of the record)
Sections(filtered_data, filtered_non_cancelled, base, base_non_cancelled, ties) ==
    [kpi_cards |-> kpis(filtered_data, filtered_non_cancelled),
     daily_chart |-> daily_sales_of(filtered_data),
     category_chart |-> category_sales_of(filtered_non_cancelled, ties),
     geo_chart |-> state_sales_of(filtered_non_cancelled, ties),
     fig_stacked_bar |-> fig_stacked_bar_of(base_non_cancelled, ties),
     b2b_chart |-> top_cancellations_of(base, ties),
     cancel_chart |-> cancel_chart_of(filtered_data, ties),
     promo_chart |-> promo_impact_of(filtered_non_cancelled)]

\* app.py:448-996  what a call returns on a base table
Bundle(base, base_non_cancelled, s, e, c, ties) ==
    Sections(filtered_data_of(base, s, e, c),
             NotCancelled(filtered_data_of(base, s, e, c)),
             base, base_non_cancelled, ties)

----------------------------------------------------------------------------
(* The tables the process may have loaded *)

Order(id, day, tod, status, amount, category, state, promo) ==
    [Order_ID |-> id,
     Order_Date |-> day * TicksPerDay + tod,
     Order_Status |-> status,
     Sale_Amount |-> amount,
     Product_Category |-> category,
     Shipping_State |-> state,
     Promotion_IDs |-> promo]

\* three orders in two categories, on days 1 and 2
SmallTables ==
    { << Order(1, 2, t1, s1, 2, 1, 1, "PROMO-1"),
         Order(2, 2, 0, s2, a2, 2, 2, null),
         Order(3, 1, 0, s3, 1, 2, 1, null) >> :
        t1 \in 0..(TicksPerDay - 1), s1 \in {Cancelled, Shipped},
        s2 \in {Cancelled, Shipped}, a2 \in {NaN, 1}, s3 \in {Cancelled, Shipped} }

\* one order a day over MaxDay days, possibly with a day without orders,
\* and a second order on day 1
DailyTables ==
    { SelectSeq([d \in 1..MaxDay |->
                    Order(d, d, 0, IF d = 2 THEN Cancelled ELSE Shipped,
                          (d * m) % 4, 1, 1, null)],
                LAMBDA r : dt_date(r.Order_Date) # gap)
      \o << Order(MaxDay + 1, 1, 1, Shipped, 1, 2, 2, "PROMO-1") >> :
        gap \in {0, 4}, m \in {1, 3} }

\* two orders in each of NumRankCategories categories and states
RankTables ==
    { [i \in 1..(2 * NumRankCategories) |->
          IF i <= NumRankCategories
          THEN Order(i, 1 + (i % 2), 0, IF i % 3 = k THEN Cancelled ELSE Shipped,
                     1 + ((i * (k + 1)) % 5), i, i,
                     IF i % 2 = 0 THEN "PROMO-2" ELSE null)
          ELSE Order(i, 2, 0, Shipped, 1 + (i % 3),
                     i - NumRankCategories, i - NumRankCategories, null)] :
        k \in {0, 1} }

\* NumPivotStates states with one order each, some with a second one
PivotTables ==
    { [s \in 1..NumPivotStates |->
          Order(s, 1, 0, Shipped, 1, 1 + (s % 3), s, null)]
      \o SelectSeq([s \in 1..NumPivotStates |->
                       Order(NumPivotStates + s, 2, 0,
                             IF s % 2 = 0 THEN Cancelled ELSE Shipped,
                             2, 1 + ((s + 1) % 3), s, "PROMO-1")],
                   LAMBDA r : r.Shipping_State % 4 = k) :
        k \in {0, 1} }

Tables == {<<>>} \cup SmallTables \cup DailyTables \cup RankTables \cup PivotTables

LoadedColumns == {"Order_ID", "Order_Date", "Order_Status", "Sale_Amount",
                  "Product_Category", "Shipping_State", "Promotion_IDs",
                  "Week", "Month", "Day"}

Undefined == [defined |-> FALSE, df |-> <<>>]

\* the calls of update_dashboard that may run at the same time, one per
\* request thread of the server (app.py:1000)
Calls == 1..NumCalls

\* the local variables of a call that is not running
NoLocals == [start_date |-> NoDate, end_date |-> NoDate,
             selected_category |-> NoCategory,
             filtered_data |-> <<>>, filtered_non_cancelled |-> <<>>,
             sections |-> <<>>, heatmap_data |-> <<>>]

\* the callback's inputs: a date-picker date or none, a dropdown value or none
DateInputs == {NoDate, 2, 3}
CategoryInputs == {NoCategory, AllCategories, 1, UnknownCategory}

----------------------------------------------------------------------------
(* The process *)

\* app.py:14-36  module load
Init ==
    /\ amazon_sales_data \in Tables
    /\ amazon_sales_data_columns = LoadedColumns
    /\ non_cancelled_orders = NotCancelled(amazon_sales_data)
    /\ amazon_sales_data_filtered = Undefined
    /\ non_cancelled_orders_filtered = Undefined
    /\ sort_ties \in {"first", "last"}
    /\ start_date = NoDate
    /\ end_date = NoDate
    /\ selected_category = NoCategory
    /\ returned = FALSE
    /\ bundle = <<>>
    /\ fig_heatmap = <<>>
    /\ pc = [t \in Calls |-> "idle"]
    /\ locals = [t \in Calls |-> NoLocals]

\* app.py:448-996
update_dashboard(s, e, c) ==
    LET filtered_data == filtered_data_of(amazon_sales_data, s, e, c)
        filtered_non_cancelled == NotCancelled(filtered_data)
    IN  /\ start_date' = s
        /\ end_date' = e
        /\ selected_category' = c
        /\ amazon_sales_data_filtered' = [defined |-> TRUE, df |-> filtered_data]
        /\ non_cancelled_orders_filtered' =
               [defined |-> TRUE, df |-> filtered_non_cancelled]
        /\ fig_heatmap' = heatmap_data_of(non_cancelled_orders, sort_ties)
        /\ amazon_sales_data_columns' = amazon_sales_data_columns \cup {"Month_Name"}
        /\ bundle' = Bundle(amazon_sales_data, non_cancelled_orders, s, e, c, sort_ties)
        /\ returned' = TRUE
        /\ UNCHANGED <<amazon_sales_data, non_cancelled_orders, sort_ties, pc, locals>>

Next == \E s \in DateInputs, e \in DateInputs, c \in CategoryInputs :
            update_dashboard(s, e, c)

Spec == Init /\ [][Next]_vars

----------------------------------------------------------------------------
(* Calls of update_dashboard running concurrently: a call is split where   *)
(* it has written the filtered-view globals and where it has built its     *)
(* sections, and the steps of different calls interleave.                  *)

\* the tables and inputs of the concurrent calls
CallTables ==
    {tb \in SmallTables : tb[1].Order_Date = to_datetime(2) /\ tb[2].Sale_Amount = 1
                              /\ tb[2].Order_Status = Shipped}
CallInputs == {<<NoDate, NoDate, AllCategories>>, <<2, 2, AllCategories>>,
               <<2, 2, 1>>, <<NoDate, 2, 1>>}

\* app.py:448-467  filter into locals, then store the views in the globals
call_filter(t, s, e, c) ==
    LET filtered_data == filtered_data_of(amazon_sales_data, s, e, c)
        filtered_non_cancelled == NotCancelled(filtered_data)
    IN  /\ pc[t] = "idle"
        /\ locals' = [locals EXCEPT ![t] =
               [start_date |-> s, end_date |-> e, selected_category |-> c,
                filtered_data |-> filtered_data,
                filtered_non_cancelled |-> filtered_non_cancelled,
                sections |-> <<>>, heatmap_data |-> <<>>]]
        /\ amazon_sales_data_filtered' = [defined |-> TRUE, df |-> filtered_data]
        /\ non_cancelled_orders_filtered' =
               [defined |-> TRUE, df |-> filtered_non_cancelled]
        /\ pc' = [pc EXCEPT ![t] = "sections"]
        /\ UNCHANGED <<amazon_sales_data, amazon_sales_data_columns,
                       non_cancelled_orders, sort_ties, start_date, end_date,
                       selected_category, returned, bundle, fig_heatmap>>

\* the sections read the global filtered views instead of the call's locals
views_of_globals(t) ==
    [filtered_data |-> amazon_sales_data_filtered.df,
     filtered_non_cancelled |-> non_cancelled_orders_filtered.df]

\* app.py:473-911  the views the sections are built from: the call's locals
views_of(t) ==
    [filtered_data |-> locals[t].filtered_data,
     filtered_non_cancelled |-> locals[t].filtered_non_cancelled]

\* app.py:469-947  build every section
call_sections(t) ==
    /\ pc[t] = "sections"
    /\ locals' = [locals EXCEPT
           ![t].sections = Sections(views_of(t).filtered_data,
                                    views_of(t).filtered_non_cancelled,
                                    amazon_sales_data, non_cancelled_orders, sort_ties),
           ![t].heatmap_data = heatmap_data_of(non_cancelled_orders, sort_ties)]
    /\ pc' = [pc EXCEPT ![t] = "order_fig"]
    /\ UNCHANGED <<amazon_sales_data, amazon_sales_data_columns, non_cancelled_orders,
                   amazon_sales_data_filtered, non_cancelled_orders_filtered,
                   sort_ties, start_date, end_date, selected_category, returned,
                   bundle, fig_heatmap>>

\* app.py:950-996  add Month_Name to the base table, build order_fig, return
call_return(t) ==
    /\ pc[t] = "order_fig"
    /\ amazon_sales_data_columns' = amazon_sales_data_columns \cup {"Month_Name"}
    /\ start_date' = locals[t].start_date
    /\ end_date' = locals[t].end_date
    /\ selected_category' = locals[t].selected_category
    /\ bundle' = locals[t].sections
    /\ fig_heatmap' = locals[t].heatmap_data
    /\ returned' = TRUE
    /\ pc' = [pc EXCEPT ![t] = "idle"]
    /\ locals' = [locals EXCEPT ![t] = NoLocals]
    /\ UNCHANGED <<amazon_sales_data, non_cancelled_orders,
                   amazon_sales_data_filtered, non_cancelled_orders_filtered,
                   sort_ties>>

CallsInit == Init /\ amazon_sales_data \in CallTables

CallsNext ==
    \E t \in Calls :
        \/ \E in \in CallInputs : call_filter(t, in[1], in[2], in[3])
        \/ call_sections(t)
        \/ call_return(t)

SpecCalls == CallsInit /\ [][CallsNext]_vars

----------------------------------------------------------------------------
(* Properties.  They are stated over sets of rows and counts, not through  *)
(* the operators above.                                                    *)

filtered_all == amazon_sales_data_filtered.df
filtered_not_cancelled == non_cancelled_orders_filtered.df

Rows(df) == {df[i] : i \in 1..Len(df)}
DayOf(r) == r.Order_Date \div TicksPerDay
Amount(r) == IF r.Sale_Amount = NaN THEN 0 ELSE r.Sale_Amount

RECURSIVE Revenue(_)
Revenue(S) == IF S = {} THEN 0
              ELSE LET r == CHOOSE x \in S : TRUE
                   IN Amount(r) + Revenue(S \ {r})

CancelledIn(S) == {r \in S : r.Order_Status = "Cancelled"}

\* C1: when both dates are given, filtered_all is exactly the set of base
\* records whose calendar day lies in [start_date, end_date], both bounds
\* inclusive, restricted to the selected category when one is selected.
C1_FilterInclusiveByDay ==
    (returned /\ start_date # NoDate /\ end_date # NoDate) =>
        Rows(filtered_all) =
            {r \in Rows(amazon_sales_data) :
                /\ start_date <= DayOf(r)
                /\ DayOf(r) <= end_date
                /\ (selected_category \in {NoCategory, AllCategories}
                    \/ r.Product_Category = selected_category)}

\* C2: filtered_non_cancelled is exactly the records of filtered_all whose
\* status is not Cancelled, so filtered_all has at least as many records.
C2_NonCancelledSubview ==
    returned =>
        /\ Rows(filtered_not_cancelled) = Rows(filtered_all) \ CancelledIn(Rows(filtered_all))
        /\ Len(filtered_not_cancelled) = Cardinality(Rows(filtered_not_cancelled))
        /\ Len(filtered_all) >= Len(filtered_not_cancelled)

C2_Witness ==
    /\ returned
    /\ CancelledIn(Rows(filtered_all)) # {}
    /\ filtered_not_cancelled # <<>>

\* C3: total_orders is the count of filtered_all, total_revenue the sum of
\* sale_amount over filtered_non_cancelled, cancellation_rate the share of
\* Cancelled records times 100 (0 without orders), avg_order_value the
\* revenue per non-cancelled order (0 without any); no division faults.
C3_Kpis ==
    returned =>
        LET k == bundle.kpi_cards
            total == Cardinality(Rows(filtered_all))
            cancelled == Cardinality(CancelledIn(Rows(filtered_all)))
            kept == Cardinality(Rows(filtered_not_cancelled))
            revenue == Revenue(Rows(filtered_not_cancelled))
        IN  /\ k.total_orders = total
            /\ k.total_revenue = revenue
            /\ k.cancellation_rate[2] > 0
            /\ k.avg_order_value[2] > 0
            /\ IF total = 0 THEN k.cancellation_rate[1] = 0
               ELSE k.cancellation_rate[1] * total = cancelled * 100 * k.cancellation_rate[2]
            /\ IF kept = 0 THEN k.avg_order_value[1] = 0
               ELSE k.avg_order_value[1] * kept = revenue * k.avg_order_value[2]

C3_Witness ==
    /\ returned
    /\ filtered_all # <<>>
    /\ filtered_not_cancelled = <<>>
    /\ bundle.kpi_cards.cancellation_rate = <<100, 1>>

\* C4: every section of the bundle is computed from the filtered views of
\* the call alone: the call returns what it would return on a base table
\* that holds only the records its filter keeps.
C4_SectionsFromFilteredViews ==
    returned =>
        /\ bundle = Bundle(filtered_all, NotCancelled(filtered_all),
                           start_date, end_date, selected_category, sort_ties)
        /\ fig_heatmap = heatmap_data_of(NotCancelled(filtered_all), sort_ties)

\* C5: the daily series has one entry per calendar day with an order in
\* filtered_all, in ascending date order, with the count and the
\* sale_amount sum of all that day's orders, cancelled ones included.
C5_DailySeries ==
    returned =>
        LET d == bundle.daily_chart
            days == {DayOf(r) : r \in Rows(filtered_all)}
        IN  /\ Len(d) = Cardinality(days)
            /\ \A i \in 1..Len(d) :
                  LET orders == {r \in Rows(filtered_all) : DayOf(r) = d[i].Order_Date}
                  IN /\ d[i].Order_Date \in days
                     /\ i < Len(d) => d[i].Order_Date < d[i + 1].Order_Date
                     /\ d[i].Order_ID = Cardinality(orders)
                     /\ d[i].Sale_Amount = Revenue(orders)

C5_Witness ==
    /\ returned
    /\ \E i \in 1..(Len(bundle.daily_chart) - 1) :
          bundle.daily_chart[i + 1].Order_Date > bundle.daily_chart[i].Order_Date + 1
    /\ \E i \in 1..Len(bundle.daily_chart) : bundle.daily_chart[i].Order_ID >= 2
    /\ \E r \in CancelledIn(Rows(filtered_all)) : Amount(r) > 0

RECURSIVE RevenueOfEntries(_, _, _)
RevenueOfEntries(d, lo, hi) ==
    IF lo > hi THEN 0 ELSE d[lo].Sale_Amount + RevenueOfEntries(d, lo + 1, hi)

\* C6: the rolling average at entry i is the mean of the revenue of entries
\* max(first, i-6)..i: of all entries so far for the first 7, of exactly the
\* last 7 entries afterwards, counting entries and not calendar days.
C6_RollingAverage ==
    returned =>
        LET d == bundle.daily_chart
        IN  \A i \in 1..Len(d) :
                LET lo == IF i <= 7 THEN 1 ELSE i - 6
                    avg == d[i].Rolling_Avg
                IN /\ avg[2] > 0
                   /\ avg[1] * (i - lo + 1) = RevenueOfEntries(d, lo, i) * avg[2]

C6_Witness ==
    /\ returned
    /\ Len(bundle.daily_chart) >= 8
    /\ bundle.daily_chart[8].Order_Date - bundle.daily_chart[2].Order_Date > 6
    /\ bundle.daily_chart[8].Rolling_Avg[1] * 8
           # RevenueOfEntries(bundle.daily_chart, 1, 8) * bundle.daily_chart[8].Rolling_Avg[2]

CategoryOf(r) == r.Product_Category
StateOf(r) == r.Shipping_State

GroupStats(S, key(_)) ==
    {[key |-> k,
      revenue |-> Revenue({r \in S : key(r) = k}),
      order_count |-> Cardinality({r \in S : key(r) = k})] : k \in {key(r) : r \in S}}

\* descending revenue, then descending order_count, then ascending key
RanksBefore(a, b) ==
    \/ a.revenue > b.revenue
    \/ a.revenue = b.revenue /\ a.order_count > b.order_count
    \/ a.revenue = b.revenue /\ a.order_count = b.order_count /\ a.key <= b.key

RECURSIVE Ranked(_)
Ranked(G) == IF G = {} THEN <<>>
             ELSE LET g == CHOOSE a \in G : \A b \in G : RanksBefore(a, b)
                  IN <<g>> \o Ranked(G \ {g})

TopRanked(S, key(_)) ==
    LET all == Ranked(GroupStats(S, key))
    IN  SubSeq(all, 1, IF Len(all) < 10 THEN Len(all) ELSE 10)

\* C7: the category ranking and the state ranking are the first 10 groups
\* of the non-cancelled view by descending revenue, ties broken by
\* descending order_count and then by ascending key.
C7_RankingTieBreak ==
    returned =>
        /\ [i \in 1..Len(bundle.category_chart) |->
               [key |-> bundle.category_chart[i].Product_Category,
                revenue |-> bundle.category_chart[i].Sale_Amount,
                order_count |-> bundle.category_chart[i].Order_ID]]
           = TopRanked(Rows(filtered_not_cancelled), CategoryOf)
        /\ [i \in 1..Len(bundle.geo_chart) |->
               [key |-> bundle.geo_chart[i].Shipping_State,
                revenue |-> bundle.geo_chart[i].Sale_Amount,
                order_count |-> bundle.geo_chart[i].Order_ID]]
           = TopRanked(Rows(filtered_not_cancelled), StateOf)

CategoriesOf(S) == {r.Product_Category : r \in S}
OrdersOf(S, c) == {r \in S : r.Product_Category = c}

\* cancellation rate of category a is at least that of category b
RateAtLeast(S, a, b) ==
    Cardinality(CancelledIn(OrdersOf(S, a))) * Cardinality(OrdersOf(S, b))
        >= Cardinality(CancelledIn(OrdersOf(S, b))) * Cardinality(OrdersOf(S, a))

\* C8 as first stated: with a Cancelled record in filtered_all, the
\* by-category breakdown lists the groups of filtered_all in descending
\* order of cancellation rate, truncated to the 10 with the highest rate.
C8_ByRateTopN ==
    (returned /\ CancelledIn(Rows(filtered_all)) # {}) =>
        LET data == bundle.cancel_chart.data
            S == Rows(filtered_all)
            listed == {data[i].Product_Category : i \in 1..Len(data)}
        IN  /\ listed \subseteq CategoriesOf(S)
            /\ Cardinality(listed) =
                   (IF Cardinality(CategoriesOf(S)) < 10
                    THEN Cardinality(CategoriesOf(S)) ELSE 10)
            /\ \A i \in 1..Len(data) : \A j \in i..Len(data) :
                   RateAtLeast(S, data[i].Product_Category, data[j].Product_Category)
            /\ \A a \in listed : \A b \in CategoriesOf(S) \ listed : RateAtLeast(S, a, b)

\* C8: with a Cancelled record in filtered_all, the by-category breakdown
\* lists every group of filtered_all, without truncation, with its cancelled
\* and not-cancelled counts and its rate cancelled / total * 100 rounded to
\* two decimals (0 for a group without cancellations), in descending order
\* of the group's total order count.
C8_ByTotalOrdersAll ==
    (returned /\ CancelledIn(Rows(filtered_all)) # {}) =>
        LET data == bundle.cancel_chart.data
            S == Rows(filtered_all)
        IN  /\ Len(data) = 2 * Cardinality(CategoriesOf(S))
            /\ \A i \in 1..Len(data) : \A j \in i..Len(data) :
                   data[i].Total_Orders >= data[j].Total_Orders
            /\ \A c \in CategoriesOf(S) :
                  LET total == Cardinality(OrdersOf(S, c))
                      cancelled == Cardinality(CancelledIn(OrdersOf(S, c)))
                  IN /\ \E i \in 1..Len(data) :
                            /\ data[i].Product_Category = c
                            /\ data[i].Status = "Cancelled"
                            /\ data[i].Total_Orders = total
                            /\ data[i].Count = cancelled
                            /\ 2 * (data[i].Label * total - cancelled * 10000) <= total
                            /\ 2 * (cancelled * 10000 - data[i].Label * total) <= total
                     /\ \E i \in 1..Len(data) :
                            /\ data[i].Product_Category = c
                            /\ data[i].Status = "Not_Cancelled"
                            /\ data[i].Total_Orders = total
                            /\ data[i].Count = total - cancelled

C8_Witness ==
    /\ returned
    /\ CancelledIn(Rows(filtered_all)) # {}
    /\ Cardinality(CategoriesOf(Rows(filtered_all))) > 10
    /\ \E c \in CategoriesOf(Rows(filtered_all)) :
           CancelledIn(OrdersOf(Rows(filtered_all), c)) = {}
    /\ \E i \in 1..Len(bundle.cancel_chart.data) :
           bundle.cancel_chart.data[i].Label \notin {NoLabel, 0, 10000}

\* C9: the by-category cancellation analysis is the "No cancellation data
\* available" marker, with no ranking, exactly when no record of
\* filtered_all is Cancelled; an empty filtered_all is such a case.
C9_EmptyMarker ==
    returned =>
        /\ (bundle.cancel_chart.title = "No cancellation data available")
               <=> (CancelledIn(Rows(filtered_all)) = {})
        /\ (CancelledIn(Rows(filtered_all)) = {}) => bundle.cancel_chart.data = <<>>
        /\ (CancelledIn(Rows(filtered_all)) # {}) => bundle.cancel_chart.data # <<>>

C9_Witness ==
    /\ returned
    /\ filtered_all # <<>>
    /\ CancelledIn(Rows(filtered_all)) = {}
    /\ bundle.cancel_chart.title = "No cancellation data available"

StatesOf(S) == {r.Shipping_State : r \in S}

CellsNonNegative(m) ==
    \A i \in 1..Len(m.values) : \A j \in 1..Len(m.values[i]) : m.values[i][j] >= 0

\* C10 as first stated: the state x category pivot has exactly 15 rows and
\* no negative cell, also when there are fewer than 15 distinct states.
C10_PivotHasFifteenRows ==
    returned =>
        /\ Len(fig_heatmap.values) = 15
        /\ CellsNonNegative(fig_heatmap)

\* C10: the state x category pivot has min(15, number of distinct states of
\* the non-cancelled view it is built from) rows and no negative cell.
C10_PivotRowCount ==
    returned =>
        LET states == Cardinality(StatesOf(Rows(non_cancelled_orders)))
        IN  /\ Len(fig_heatmap.values) = (IF states < 15 THEN states ELSE 15)
            /\ Len(fig_heatmap.index) = Len(fig_heatmap.values)
            /\ \A i \in 1..Len(fig_heatmap.values) :
                   Len(fig_heatmap.values[i]) = Len(fig_heatmap.columns)
            /\ CellsNonNegative(fig_heatmap)

C10_Witness ==
    /\ returned
    /\ Cardinality(StatesOf(Rows(non_cancelled_orders))) > 15
    /\ Len(fig_heatmap.values) = 15

OrderCountOfState(S, st) == Cardinality({r \in S : r.Shipping_State = st})

\* C11: the rows of the state x category pivot matrix appear in the order of
\* the top-N state ranking, by descending order count of the state in the
\* non-cancelled view the pivot is built from, not in key order.
C11_PivotRowsInRankingOrder ==
    returned =>
        \A i \in 1..Len(fig_heatmap.index) : \A j \in i..Len(fig_heatmap.index) :
            OrderCountOfState(Rows(non_cancelled_orders), fig_heatmap.index[i])
                >= OrderCountOfState(Rows(non_cancelled_orders), fig_heatmap.index[j])

PromoLabels(p) == {p[i].Promotion : i \in 1..Len(p)}

\* C12: the promotion comparison always holds both partitions, "With
\* Promotion" and "No Promotion"; a partition without records is present
\* with order count, revenue and average order value all 0.
C12_BothPartitionsPresent ==
    returned =>
        /\ Len(bundle.promo_chart) = 2
        /\ PromoLabels(bundle.promo_chart) = {"With Promotion", "No Promotion"}
        /\ \A i \in 1..Len(bundle.promo_chart) :
               bundle.promo_chart[i].Order_Count = 0 =>
                   /\ bundle.promo_chart[i].Total_Sales = 0
                   /\ bundle.promo_chart[i].Average_Order_Value = <<0, 1>>

\* order count of the partition with that label, 0 when it is not listed
PartitionCount(p, label) ==
    IF \E i \in 1..Len(p) : p[i].Promotion = label
    THEN p[CHOOSE i \in 1..Len(p) : p[i].Promotion = label].Order_Count
    ELSE 0

\* C13: the order counts of the partitions with and without promotion add
\* up to the number of records of filtered_non_cancelled; a record counts
\* in the partition with promotion exactly when its promotion ids are not
\* null; a partition that is not listed counts 0.
C13_PromoCountsPartition ==
    returned =>
        LET S == Rows(filtered_not_cancelled)
            with == PartitionCount(bundle.promo_chart, "With Promotion")
            without == PartitionCount(bundle.promo_chart, "No Promotion")
        IN  /\ with + without = Cardinality(S)
            /\ with = Cardinality({r \in S : r.Promotion_IDs # "null"})
            /\ without = Cardinality({r \in S : r.Promotion_IDs = "null"})
            /\ \A i \in 1..Len(bundle.promo_chart) :
                   bundle.promo_chart[i].Promotion \in {"With Promotion", "No Promotion"}
            /\ Cardinality(PromoLabels(bundle.promo_chart)) = Len(bundle.promo_chart)

C13_Witness ==
    /\ returned
    /\ Len(bundle.promo_chart) = 2
    /\ \E r \in Rows(filtered_not_cancelled) :
           r.Sale_Amount = NaN /\ r.Promotion_IDs = "null"
    /\ PartitionCount(bundle.promo_chart, "No Promotion") = 2

\* C14: when the filter leaves no record (a date range outside the data, a
\* start after the end, a category without orders) the call raises no error
\* and returns a full bundle: the four KPIs are 0, the category and state
\* rankings are empty, and the cancellation analysis is the empty marker.
C14_EmptyFilterBundle ==
    (returned /\ filtered_all = <<>>) =>
        /\ bundle.kpi_cards = [total_orders |-> 0, total_revenue |-> 0,
                               cancellation_rate |-> <<0, 1>>,
                               avg_order_value |-> <<0, 1>>]
        /\ bundle.daily_chart = <<>>
        /\ bundle.category_chart = <<>>
        /\ bundle.geo_chart = <<>>
        /\ bundle.cancel_chart.title = "No cancellation data available"
        /\ bundle.cancel_chart.data = <<>>

C14_Witness ==
    /\ returned
    /\ amazon_sales_data # <<>>
    /\ filtered_all = <<>>
    /\ start_date # NoDate
    /\ end_date # NoDate
    /\ start_date > end_date
    /\ bundle.kpi_cards.total_orders = 0

\* C15: when exactly one of start_date and end_date is absent, only the
\* absent bound is skipped: the bound that is given still restricts
\* filtered_all, together with the selected category.
C15_OneSidedDateBound ==
    (returned /\ (start_date = NoDate) # (end_date = NoDate)) =>
        Rows(filtered_all) =
            {r \in Rows(amazon_sales_data) :
                /\ (start_date = NoDate \/ start_date <= DayOf(r))
                /\ (end_date = NoDate \/ DayOf(r) <= end_date)
                /\ (selected_category \in {NoCategory, AllCategories}
                    \/ r.Product_Category = selected_category)}

\* C16: a call has no side effect on process-wide state: the base table,
\* records and columns, and its non-cancelled subview are the same after
\* the call as before it, and no filtered view stays stored in a
\* process-wide variable once the call has returned.
C16_NoSideEffect ==
    [][/\ amazon_sales_data' = amazon_sales_data
       /\ amazon_sales_data_columns' = amazon_sales_data_columns
       /\ non_cancelled_orders' = non_cancelled_orders
       /\ ~amazon_sales_data_filtered'.defined
       /\ ~non_cancelled_orders_filtered'.defined]_vars

RECURSIVE RowSum(_, _)
RowSum(row, n) == IF n = 0 THEN 0 ELSE row[n] + RowSum(row, n - 1)

\* C18: the state x category pivot is rectangular: every row has one cell
\* per listed category, a cell holds the number of orders of its state and
\* category, 0 for a pair that does not occur, and the cells of a row add
\* up to the number of orders of that state in the non-cancelled view the
\* pivot is built from.
C18_PivotRectangularRowSums ==
    returned =>
        LET m == fig_heatmap
            S == Rows(non_cancelled_orders)
        IN  /\ Len(m.values) = Len(m.index)
            /\ \A i \in 1..Len(m.index) :
                   /\ Len(m.values[i]) = Len(m.columns)
                   /\ \A j \in 1..Len(m.columns) :
                          m.values[i][j] =
                              Cardinality({r \in S : /\ r.Shipping_State = m.index[i]
                                                     /\ r.Product_Category = m.columns[j]})
                   /\ RowSum(m.values[i], Len(m.columns))
                          = OrderCountOfState(S, m.index[i])

C18_Witness ==
    /\ returned
    /\ \E i \in 1..Len(fig_heatmap.index) :
           /\ \E j \in 1..Len(fig_heatmap.columns) : fig_heatmap.values[i][j] = 0
           /\ Cardinality({j \in 1..Len(fig_heatmap.columns) :
                               fig_heatmap.values[i][j] > 0}) >= 2

PromoPartition(S, label) ==
    {r \in S : (r.Promotion_IDs # "null") <=> (label = "With Promotion")}

\* C19: in each partition of the promotion comparison the average order
\* value is the partition's revenue divided by its order count, where a NaN
\* sale_amount adds 0 to the revenue and still counts 1 order; the average
\* is 0 when the order count is 0.
C19_PromoAverage ==
    returned =>
        \A i \in 1..Len(bundle.promo_chart) :
            LET p == bundle.promo_chart[i]
                part == PromoPartition(Rows(filtered_not_cancelled), p.Promotion)
            IN  /\ p.Order_Count = Cardinality(part)
                /\ p.Total_Sales = Revenue(part)
                /\ p.Average_Order_Value[2] > 0
                /\ IF p.Order_Count = 0 THEN p.Average_Order_Value[1] = 0
                   ELSE p.Average_Order_Value[1] * p.Order_Count
                            = p.Total_Sales * p.Average_Order_Value[2]

\* C17: the bundle a call returns depends only on the loaded base table and
\* the call's three parameters: after any sequence of earlier calls, and
\* under any interleaving with other running calls that write the
\* filtered-view globals, the sections a call has built and the bundle it
\* returns are those of the same call made first on a freshly loaded
\* process.
C17_BundleOfInputsOnly ==
    /\ \A t \in Calls :
           pc[t] = "order_fig" =>
               locals[t].sections =
                   Bundle(amazon_sales_data, NotCancelled(amazon_sales_data),
                          locals[t].start_date, locals[t].end_date,
                          locals[t].selected_category, sort_ties)
    /\ returned =>
           bundle = Bundle(amazon_sales_data, NotCancelled(amazon_sales_data),
                           start_date, end_date, selected_category, sort_ties)

C17_Witness ==
    /\ returned
    /\ \E t \in Calls :
           /\ pc[t] = "order_fig"
           /\ locals[t].filtered_data # amazon_sales_data_filtered.df
           /\ locals[t].sections # bundle
    /\ amazon_sales_data_filtered.df
           # filtered_data_of(amazon_sales_data, start_date, end_date, selected_category)

====
